---- MODULE Spec2Model ----
(***************************************************************************)
(* Flight Network Explorer (flight_network_main.py).                       *)
(*                                                                         *)
(* The program builds an undirected networkx Graph G from two tables       *)
(* (build_graph) and answers queries over it (validate_iata,               *)
(* find_shortest_path, show_top_hubs, show_neighbors, show_stats), driven  *)
(* by a menu loop (interactive_mode).                                      *)
(*                                                                         *)
(* G is modelled as networkx stores it: G.node is the insertion-ordered    *)
(* key list of the dict G._node, G.adj[u] the insertion-ordered key list   *)
(* of the dict G._adj[u].  Node attributes other than the code are not     *)
(* modelled.  What a query prints, or the exception it lets escape, is its *)
(* outcome record.                                                         *)
(*                                                                         *)
(* Four specifications:                                                    *)
(*   SpecBuild  build_graph run row by row on two given tables;            *)
(*   SpecQuery  a Graph built by build_graph, then one query call with     *)
(*              any arguments;                                             *)
(*   SpecPath   the same with find_shortest_path only, on four airports;   *)
(*   Spec       the program: build_graph, then interactive_mode.           *)
(***************************************************************************)
EXTENDS Integers, Sequences, FiniteSets, TLC

VARIABLES
    pc,           \* control position
    airports_df,  \* SpecBuild: the airport table (the IATA column)
    routes_df,    \* SpecBuild: the route table (Source, Destination, Stops)
    ai,           \* airport rows consumed by the first loop of build_graph
    ri,           \* route rows consumed by the second loop of build_graph
    G,            \* the Graph: [node |-> <<codes>>, adj |-> [code -> <<codes>>]]
    ret,          \* the last query call: operation, arguments and outcome
    choice,       \* interactive_mode: local choice, the menu choice read last
    src           \* interactive_mode: local src, the validated departure code

\* The other locals of interactive_mode (dst, code, n) are read and used
\* within one step; a query call records them in ret.

vars == <<pc, airports_df, routes_df, ai, ri, G, ret, choice, src>>

-----------------------------------------------------------------------------
(* Bounds *)

\* rows of the airport table read by Spec, SpecQuery and SpecPath
MaxAirports == 4
\* rows of the route table read by Spec, SpecQuery and SpecPath
MaxRoutes == 3
\* rows of each table given to SpecBuild
MaxRows == 2

-----------------------------------------------------------------------------
(* Values *)

\* the "no data" marker of the .dat files
Sentinel == "\\N"

\* values of an IATA / Source_Airport / Destination_Airport cell
IATA == {"", Sentinel, "A", "B", "C"}

\* the same with a fourth airport code, for SpecPath
PathIATA == IATA \cup {"D"}

\* cells of the tables given to SpecBuild
BuildIATA == {"", Sentinel, "A", "B"}

\* endpoint cells of the route table given to SpecBuild
BuildEnds == {Sentinel, "A", "B"}

\* values of a Stops cell
Stops == {0, 1}

\* Python's order on the strings above (code point order)
Rank(c) ==
    CASE c = "" -> 0
      [] c = "A" -> 1
      [] c = "B" -> 2
      [] c = "C" -> 3
      [] c = "D" -> 4
      [] c = Sentinel -> 5
      [] OTHER -> 6

Range(s) == {s[k] : k \in 1..Len(s)}

SeqsUpTo(S, m) == UNION {[1..k -> S] : k \in 0..m}

RouteRows(C) == [Source_Airport : C, Destination_Airport : C, Stops : Stops]

-----------------------------------------------------------------------------
(* networkx.Graph *)

\* nx.Graph()
EmptyGraph == [node |-> <<>>, adj |-> <<>>]

\* code in G
HasNode(g, c) == c \in Range(g.node)

\* G.add_node(code, ...): a new key is appended to _node and gets an empty
\* _adj entry; an existing key keeps its place.
add_node(g, c) ==
    IF HasNode(g, c) THEN g
    ELSE [node |-> Append(g.node, c), adj |-> g.adj @@ (c :> <<>>)]

\* dict[key] = value on an insertion-ordered dict, keys only
SetKey(keys, k) == IF k \in Range(keys) THEN keys ELSE Append(keys, k)

\* G.add_edge that fills the adjacency of u only
add_edge_oneway(g, u, v) ==
    [g EXCEPT !.adj = [@ EXCEPT ![u] = SetKey(@, v)]]

\* G.add_edge(u, v) with both ends present: _adj[u][v] = d; _adj[v][u] = d
add_edge(g, u, v) ==
    LET a1 == [g.adj EXCEPT ![u] = SetKey(@, v)]
        a2 == [a1 EXCEPT ![v] = SetKey(@, u)]
    IN  [g EXCEPT !.adj = a2]

\* G.neighbors(code): iter(_adj[code])
Neighbors(g, c) == g.adj[c]

\* G.degree(code): len(_adj[code]), a self-loop counted twice
Degree(g, c) ==
    Len(g.adj[c]) + (IF c \in Range(g.adj[c]) THEN 1 ELSE 0)

-----------------------------------------------------------------------------
(* build_graph *)

\* the test of the first loop without the comparison to the sentinel
ValidCodeNoSentinel(c) == c # ""

\* if code and code != r"\N"
ValidCode(c) == c # "" /\ c # Sentinel

\* body of the first loop, for one airport row
AirportRow(g, c) == IF ValidCode(c) THEN add_node(g, c) ELSE g

\* if src in G and dst in G and row["Stops"] == 0
DirectRoute(g, row) ==
    /\ HasNode(g, row.Source_Airport)
    /\ HasNode(g, row.Destination_Airport)
    /\ row.Stops = 0

\* body of the second loop, for one route row
RouteRow(g, row) ==
    IF DirectRoute(g, row)
    THEN add_edge(g, row.Source_Airport, row.Destination_Airport)
    ELSE g

\* no query called yet
NoCall == [op |-> "none", src |-> "", dst |-> "", n |-> 0,
           kind |-> "none", exc |-> "", path |-> <<>>, hubs |-> <<>>, count |-> 0]

ShellIdle == ret = NoCall /\ choice = "" /\ src = ""

\* SpecBuild: build_graph(airports_df, routes_df) on two given tables
InitBuild ==
    /\ pc = "airports"
    /\ airports_df \in SeqsUpTo(BuildIATA, MaxRows)
    /\ routes_df \in SeqsUpTo(RouteRows(BuildEnds), MaxRows)
    /\ ai = 0 /\ ri = 0
    /\ G = EmptyGraph
    /\ ShellIdle

\* one iteration of: for _, row in airports_df.iterrows()
BuildAirport ==
    /\ pc = "airports"
    /\ ai < Len(airports_df)
    /\ G' = AirportRow(G, airports_df[ai + 1])
    /\ ai' = ai + 1
    /\ UNCHANGED <<pc, airports_df, routes_df, ri, ret, choice, src>>

\* the first loop is exhausted
BuildAirportsEnd ==
    /\ pc = "airports"
    /\ ai = Len(airports_df)
    /\ pc' = "routes"
    /\ UNCHANGED <<airports_df, routes_df, ai, ri, G, ret, choice, src>>

\* one iteration of: for _, row in routes_df.iterrows()
BuildRoute ==
    /\ pc = "routes"
    /\ ri < Len(routes_df)
    /\ G' = RouteRow(G, routes_df[ri + 1])
    /\ ri' = ri + 1
    /\ UNCHANGED <<pc, airports_df, routes_df, ai, ret, choice, src>>

\* the second loop is exhausted: return G
BuildReturn ==
    /\ pc = "routes"
    /\ ri = Len(routes_df)
    /\ pc' = "built"
    /\ UNCHANGED <<airports_df, routes_df, ai, ri, G, ret, choice, src>>

NextBuild == BuildAirport \/ BuildAirportsEnd \/ BuildRoute \/ BuildReturn

SpecBuild == InitBuild /\ [][NextBuild]_vars

-----------------------------------------------------------------------------
(* Query operations *)

\* validate_iata(code, G): code in G (the message it prints is not modelled)
validate_iata(c, g) == HasNode(g, c)

\* Python's None as a predecessor
None == "None"

\* the edges out of one BFS level, in visiting order:
\* for v in this_level: for w in G.adj[v]
RECURSIVE LevelEdges(_, _)
LevelEdges(g, level) ==
    IF level = <<>> THEN <<>>
    ELSE [k \in 1..Len(g.adj[Head(level)]) |-> <<Head(level), g.adj[Head(level)][k]>>]
         \o LevelEdges(g, Tail(level))

\* One level of _bidirectional_pred_succ, edges e[k..] still to visit:
\*     if w not in seen: fringe.append(w); seen[w] = v
\*     if w in other: return w
\* seen is pred (forward) or succ (reverse), other the opposite map.
RECURSIVE Expand(_, _, _, _, _)
Expand(e, k, seen, other, fringe) ==
    IF k > Len(e) THEN [found |-> FALSE, w |-> None, seen |-> seen, fringe |-> fringe]
    ELSE LET v == e[k][1]
             w == e[k][2]
             new == w \notin DOMAIN seen
             seen2 == IF new THEN seen @@ (w :> v) ELSE seen
             fringe2 == IF new THEN Append(fringe, w) ELSE fringe
         IN  IF w \in DOMAIN other
             THEN [found |-> TRUE, w |-> w, seen |-> seen2, fringe |-> fringe2]
             ELSE Expand(e, k + 1, seen2, other, fringe2)

\* while forward_fringe and reverse_fringe: expand the shorter fringe
\* (the forward one on a tie); NetworkXNoPath when a fringe runs empty
RECURSIVE Search(_, _, _, _, _)
Search(g, pred, succ, forward_fringe, reverse_fringe) ==
    IF forward_fringe = <<>> \/ reverse_fringe = <<>>
    THEN [found |-> FALSE, w |-> None, pred |-> pred, succ |-> succ]
    ELSE IF Len(forward_fringe) <= Len(reverse_fringe)
    THEN LET r == Expand(LevelEdges(g, forward_fringe), 1, pred, succ, <<>>)
         IN  IF r.found
             THEN [found |-> TRUE, w |-> r.w, pred |-> r.seen, succ |-> succ]
             ELSE Search(g, r.seen, succ, r.fringe, reverse_fringe)
    ELSE LET r == Expand(LevelEdges(g, reverse_fringe), 1, succ, pred, <<>>)
         IN  IF r.found
             THEN [found |-> TRUE, w |-> r.w, pred |-> pred, succ |-> r.seen]
             ELSE Search(g, pred, r.seen, forward_fringe, r.fringe)

\* while w is not None: path.append(w); w = m[w]
RECURSIVE Chain(_, _)
Chain(m, w) == IF w = None THEN <<>> ELSE <<w>> \o Chain(m, m[w])

Reverse(s) == [k \in 1..Len(s) |-> s[Len(s) + 1 - k]]

\* _bidirectional_pred_succ without the test "if target == source"
BidirectionalNoSameTest(g, s, d) ==
    Search(g, s :> None, d :> None, <<s>>, <<d>>)

\* _bidirectional_pred_succ(G, source, target)
Bidirectional(g, s, d) ==
    IF d = s
    THEN [found |-> TRUE, w |-> s, pred |-> s :> None, succ |-> s :> None]
    ELSE Search(g, s :> None, d :> None, <<s>>, <<d>>)

\* nx.shortest_path(G, source, target), unweighted: NodeNotFound for an
\* end that is no node, else bidirectional_shortest_path: the path from
\* source to the meeting node w, then on to target; NetworkXNoPath if none.
shortest_path(g, s, d) ==
    IF ~HasNode(g, s) \/ ~HasNode(g, d)
    THEN [raised |-> "NodeNotFound", path |-> <<>>]
    ELSE LET r == Bidirectional(g, s, d)
         IN  IF ~r.found
             THEN [raised |-> "NetworkXNoPath", path |-> <<>>]
             ELSE [raised |-> "",
                   path |-> Reverse(Chain(r.pred, r.w)) \o Chain(r.succ, r.succ[r.w])]

Call(op, s, d, k) == [NoCall EXCEPT !.op = op, !.src = s, !.dst = d, !.n = k]

\* find_shortest_path with source and target swapped in the call
find_shortest_path_swapped(g, s, d) ==
    LET r == shortest_path(g, d, s)
        c == Call("find_shortest_path", s, d, 0)
    IN  IF r.raised = ""
        THEN [c EXCEPT !.kind = "path", !.path = r.path]
        ELSE IF r.raised = "NetworkXNoPath"
        THEN [c EXCEPT !.kind = "no_path"]
        ELSE [c EXCEPT !.kind = "raised", !.exc = r.raised]

\* find_shortest_path with no except clause
find_shortest_path_uncaught(g, s, d) ==
    LET r == shortest_path(g, s, d)
        c == Call("find_shortest_path", s, d, 0)
    IN  IF r.raised # ""
        THEN [c EXCEPT !.kind = "raised", !.exc = r.raised]
        ELSE [c EXCEPT !.kind = "path", !.path = r.path]

\* find_shortest_path(G, src, dst): prints the path, or "No path found" on
\* NetworkXNoPath; any other exception escapes
find_shortest_path(g, s, d) ==
    LET r == shortest_path(g, s, d)
        c == Call("find_shortest_path", s, d, 0)
    IN  IF r.raised = ""
        THEN [c EXCEPT !.kind = "path", !.path = r.path]
        ELSE IF r.raised = "NetworkXNoPath"
        THEN [c EXCEPT !.kind = "no_path"]
        ELSE [c EXCEPT !.kind = "raised", !.exc = r.raised]

\* list(G.degree): (code, degree) in node order
DegreeView(g) == [k \in 1..Len(g.node) |-> <<g.node[k], Degree(g, g.node[k])>>]

\* the sort orders used: key=lambda x: x[1], reverse=True on (code, degree)
\* pairs in show_top_hubs; the order of str on codes in show_neighbors
Before(by, x, y) ==
    IF by = "degree" THEN x[2] > y[2] ELSE Rank(x) < Rank(y)

\* x put into a sorted list, behind the elements it is not before (so equal
\* elements keep their order: Python's sort is stable)
RECURSIVE Insert(_, _, _)
Insert(by, sorted, x) ==
    IF sorted = <<>> THEN <<x>>
    ELSE IF Before(by, x, Head(sorted)) THEN <<x>> \o sorted
    ELSE <<Head(sorted)>> \o Insert(by, Tail(sorted), x)

\* sorted(s, ...)
RECURSIVE SortedBy(_, _)
SortedBy(by, s) ==
    IF s = <<>> THEN <<>>
    ELSE Insert(by, SortedBy(by, SubSeq(s, 1, Len(s) - 1)), s[Len(s)])

\* a slice that takes one element too many
SliceOneMore(s, k) == SubSeq(s, 1, IF k + 1 < Len(s) THEN k + 1 ELSE Len(s))

\* s[:k]: the first k elements, or all but the last -k for k < 0
Slice(s, k) ==
    LET stop == IF k < 0 THEN (IF Len(s) + k < 0 THEN 0 ELSE Len(s) + k)
                ELSE (IF k > Len(s) THEN Len(s) ELSE k)
    IN  SubSeq(s, 1, stop)

\* show_top_hubs(G, top_n): prints the pairs of
\* sorted(G.degree, key=lambda x: x[1], reverse=True)[:top_n]
show_top_hubs(g, top_n) ==
    [Call("show_top_hubs", "", "", top_n) EXCEPT
        !.kind = "hubs",
        !.hubs = Slice(SortedBy("degree", DegreeView(g)), top_n)]

\* show_neighbors(G, code): prints sorted(G.neighbors(code)); G.neighbors
\* raises NetworkXError for a code that is no node
show_neighbors(g, c) ==
    LET r == Call("show_neighbors", c, "", 0)
    IN  IF ~HasNode(g, c)
        THEN [r EXCEPT !.kind = "raised", !.exc = "NetworkXError"]
        ELSE [r EXCEPT !.kind = "neighbors", !.path = SortedBy("code", Neighbors(g, c))]

\* show_stats(G, code): G.nodes[code] raises KeyError for a code that is no
\* node; else prints the attributes and count = G.degree(code)
show_stats(g, c) ==
    LET r == Call("show_stats", c, "", 0)
    IN  IF ~HasNode(g, c)
        THEN [r EXCEPT !.kind = "raised", !.exc = "KeyError"]
        ELSE [r EXCEPT !.kind = "stats", !.count = Degree(g, c)]

-----------------------------------------------------------------------------
(* build_graph on rows read one at a time (Spec, SpecQuery) *)

Init ==
    /\ pc = "airports"
    /\ airports_df = <<>> /\ routes_df = <<>>
    /\ ai = 0 /\ ri = 0
    /\ G = EmptyGraph
    /\ ShellIdle

\* one iteration of the first loop, on any next row
IterAirport(Cells) ==
    /\ pc = "airports"
    /\ ai < MaxAirports
    /\ \E c \in Cells : G' = AirportRow(G, c)
    /\ ai' = ai + 1
    /\ UNCHANGED <<pc, airports_df, routes_df, ri, ret, choice, src>>

\* the first loop is exhausted
IterAirportsEnd ==
    /\ pc = "airports"
    /\ pc' = "routes"
    /\ UNCHANGED <<airports_df, routes_df, ai, ri, G, ret, choice, src>>

\* one iteration of the second loop, on any next row
IterRoute(Cells) ==
    /\ pc = "routes"
    /\ ri < MaxRoutes
    /\ \E row \in RouteRows(Cells) : G' = RouteRow(G, row)
    /\ ri' = ri + 1
    /\ UNCHANGED <<pc, airports_df, routes_df, ai, ret, choice, src>>

\* return G: the loop iterators are gone
Return(next) ==
    /\ pc = "routes"
    /\ pc' = next
    /\ ai' = 0 /\ ri' = 0
    /\ UNCHANGED <<airports_df, routes_df, G, ret, choice, src>>

-----------------------------------------------------------------------------
(* SpecQuery: one query call, with any arguments, on a built Graph *)

\* top_n values tried
TopN == (0 - 2)..(MaxAirports + 1)

QueryReturn == Return("built")

CallValidate ==
    /\ pc = "built"
    /\ \E c \in IATA :
         ret' = [Call("validate_iata", c, "", 0) EXCEPT
                    !.kind = IF validate_iata(c, G) THEN "true" ELSE "false"]
    /\ pc' = "called"
    /\ UNCHANGED <<airports_df, routes_df, ai, ri, G, choice, src>>

CallShortestPath(Codes) ==
    /\ pc = "built"
    /\ \E s \in Codes, d \in Codes : ret' = find_shortest_path(G, s, d)
    /\ pc' = "called"
    /\ UNCHANGED <<airports_df, routes_df, ai, ri, G, choice, src>>

CallTopHubs ==
    /\ pc = "built"
    /\ \E k \in TopN : ret' = show_top_hubs(G, k)
    /\ pc' = "called"
    /\ UNCHANGED <<airports_df, routes_df, ai, ri, G, choice, src>>

CallNeighbors ==
    /\ pc = "built"
    /\ \E c \in IATA : ret' = show_neighbors(G, c)
    /\ pc' = "called"
    /\ UNCHANGED <<airports_df, routes_df, ai, ri, G, choice, src>>

CallStats ==
    /\ pc = "built"
    /\ \E c \in IATA : ret' = show_stats(G, c)
    /\ pc' = "called"
    /\ UNCHANGED <<airports_df, routes_df, ai, ri, G, choice, src>>

NextQuery ==
    \/ IterAirport(IATA) \/ IterAirportsEnd \/ IterRoute(IATA) \/ QueryReturn
    \/ CallValidate \/ CallShortestPath(IATA) \/ CallTopHubs
    \/ CallNeighbors \/ CallStats

SpecQuery == Init /\ [][NextQuery]_vars

\* SpecPath: one call of find_shortest_path on a Graph of up to four airports
NextPath ==
    \/ IterAirport(PathIATA) \/ IterAirportsEnd \/ IterRoute(PathIATA)
    \/ QueryReturn \/ CallShortestPath(PathIATA \ {"", Sentinel})

SpecPath == Init /\ [][NextPath]_vars

-----------------------------------------------------------------------------
(* interactive_mode (Spec) *)

\* the one-character text U+00B2, SUPERSCRIPT TWO
Superscript2 == "U+00B2"

\* lines typed at "Enter number: "
RawChoices == {"1", "2", "3", "4", "5", " 5 ", "9", ""}

\* lines typed at the IATA code prompts
RawCodes == {"a", " B", "C", "c", "\\n", ""}

\* lines typed at "How many top hubs?"
RawCounts == {"0", "2", " 5 ", "abc", "-1", "", Superscript2}

\* str.strip() on the lines above
Strip(t) ==
    CASE t = " 5 " -> "5"
      [] t = " B" -> "B"
      [] OTHER -> t

\* str.upper() on the lines above
Upper(t) ==
    CASE t = "a" -> "A"
      [] t = "c" -> "C"
      [] t = "\\n" -> "\\N"
      [] t = "abc" -> "ABC"
      [] OTHER -> t

\* str.isdigit(): non-empty and every character a digit; the superscript
\* digits count as digits
IsDigit(t) == t \in {"0", "2", "5", Superscript2}

\* the texts int() converts: decimal digits only; ValueError otherwise
IntParses(t) == t \in {"0", "2", "5"}

\* int(n)
ParseInt(t) ==
    CASE t = "0" -> 0
      [] t = "2" -> 2
      [] t = "5" -> 5

\* build_graph returns; interactive_mode prints the welcome and the menu
ShellStart == Return("menu")

\* where an outcome leaves the loop: an escaped exception ends it
After(r) == IF r.kind = "raised" THEN "raised" ELSE "menu"

\* choice = input("Enter number: ").strip() and the branch on it
ReadChoice ==
    /\ pc = "menu"
    /\ \E raw \in RawChoices :
         /\ choice' = Strip(raw)
         /\ pc' = CASE choice' = "1" -> "src"
                    [] choice' = "2" -> "hubs"
                    [] choice' = "3" -> "neighbors"
                    [] choice' = "4" -> "stats"
                    [] choice' = "5" -> "exit"
                    [] OTHER -> "menu"
    /\ UNCHANGED <<airports_df, routes_df, ai, ri, G, ret, src>>

\* choice 1, first loop: src = input(...).upper().strip(), until valid
ReadSrc ==
    /\ pc = "src"
    /\ \E raw \in RawCodes :
         /\ src' = Strip(Upper(raw))
         /\ pc' = IF validate_iata(src', G) THEN "dst" ELSE "src"
    /\ UNCHANGED <<airports_df, routes_df, ai, ri, G, ret, choice>>

\* choice 1, second loop: dst = input(...).upper().strip(), until valid;
\* then find_shortest_path(G, src, dst)
ReadDst ==
    /\ pc = "dst"
    /\ \E raw \in RawCodes :
         LET dst == Strip(Upper(raw))
         IN  IF validate_iata(dst, G)
             THEN /\ ret' = find_shortest_path(G, src, dst)
                  /\ pc' = After(ret')
             ELSE UNCHANGED <<pc, ret>>
    /\ UNCHANGED <<airports_df, routes_df, ai, ri, G, choice, src>>

\* choice 2: n = input(...).strip(), until n.isdigit(); n = int(n);
\* then show_top_hubs(G, n)
ReadCount ==
    /\ pc = "hubs"
    /\ \E raw \in RawCounts :
         LET t == Strip(raw)
         IN  IF ~IsDigit(t) THEN UNCHANGED <<pc, ret>>
             ELSE IF ~IntParses(t)
             THEN /\ ret' = [Call("int", t, "", 0) EXCEPT
                                !.kind = "raised", !.exc = "ValueError"]
                  /\ pc' = After(ret')
             ELSE /\ ret' = show_top_hubs(G, ParseInt(t))
                  /\ pc' = After(ret')
    /\ UNCHANGED <<airports_df, routes_df, ai, ri, G, choice, src>>

\* choice 3: code = input(...).upper().strip(); back to the menu if not
\* valid; else show_neighbors(G, code)
ReadNeighborsCode ==
    /\ pc = "neighbors"
    /\ \E raw \in RawCodes :
         LET code == Strip(Upper(raw))
         IN  IF ~validate_iata(code, G)
             THEN pc' = "menu" /\ UNCHANGED ret
             ELSE /\ ret' = show_neighbors(G, code)
                  /\ pc' = After(ret')
    /\ UNCHANGED <<airports_df, routes_df, ai, ri, G, choice, src>>

\* choice 4: code = input(...).upper().strip(); back to the menu if not
\* valid; else show_stats(G, code)
ReadStatsCode ==
    /\ pc = "stats"
    /\ \E raw \in RawCodes :
         LET code == Strip(Upper(raw))
         IN  IF ~validate_iata(code, G)
             THEN pc' = "menu" /\ UNCHANGED ret
             ELSE /\ ret' = show_stats(G, code)
                  /\ pc' = After(ret')
    /\ UNCHANGED <<airports_df, routes_df, ai, ri, G, choice, src>>

Next ==
    \/ IterAirport(IATA) \/ IterAirportsEnd \/ IterRoute(IATA) \/ ShellStart
    \/ ReadChoice \/ ReadSrc \/ ReadDst \/ ReadCount
    \/ ReadNeighborsCode \/ ReadStatsCode

Spec == Init /\ [][Next]_vars

-----------------------------------------------------------------------------
(* Claims about build_graph (SpecBuild) *)

NoDuplicates(s) == Cardinality(Range(s)) = Len(s)

\* the unordered pairs {u, v} with v stored as a neighbour of u
EdgePairs(g) ==
    UNION {{{u, v} : v \in Range(g.adj[u])} : u \in DOMAIN g.adj}

Symmetric(g) ==
    \A u \in DOMAIN g.adj : \A v \in Range(g.adj[u]) :
        v \in DOMAIN g.adj /\ u \in Range(g.adj[v])

C2_EdgeSet ==
    pc = "built" =>
        /\ EdgePairs(G) =
             {{r.Source_Airport, r.Destination_Airport} :
                 r \in {x \in Range(routes_df) :
                          /\ x.Stops = 0
                          /\ x.Source_Airport \in Range(G.node)
                          /\ x.Destination_Airport \in Range(G.node)}}
        /\ Symmetric(G)
        /\ \A u \in DOMAIN G.adj : NoDuplicates(G.adj[u])

\* C2 witness: a route and its reverse, both direct, collapsed to one edge
C2_Witness ==
    /\ pc = "built"
    /\ routes_df = << [Source_Airport |-> "A", Destination_Airport |-> "B", Stops |-> 0],
                      [Source_Airport |-> "B", Destination_Airport |-> "A", Stops |-> 0] >>
    /\ DOMAIN G.adj = {"A", "B"}
    /\ G.adj["A"] = <<"B">>
    /\ G.adj["B"] = <<"A">>

-----------------------------------------------------------------------------
(* Claims about find_shortest_path (SpecPath) *)

\* the nodes within k edges of the set S
RECURSIVE Ball(_, _, _)
Ball(g, S, k) ==
    IF k = 0 THEN S
    ELSE LET B == Ball(g, S, k - 1)
         IN  B \cup {v \in Range(g.node) : \E u \in B : v \in Range(g.adj[u])}

\* s and d lie in the same connected component
Connected(g, s, d) == d \in Ball(g, {s}, Len(g.node))

\* the fewest edges of any walk from s to d
Distance(g, s, d) ==
    CHOOSE k \in 0..Len(g.node) :
        /\ d \in Ball(g, {s}, k)
        /\ \A j \in 0..(k - 1) : d \notin Ball(g, {s}, j)

\* every consecutive pair of p is an edge
IsWalk(g, p) ==
    \A k \in 1..(Len(p) - 1) :
        p[k] \in DOMAIN g.adj /\ p[k + 1] \in Range(g.adj[p[k]])

PathQuery ==
    /\ ret.op = "find_shortest_path"
    /\ HasNode(G, ret.src)
    /\ HasNode(G, ret.dst)

\* C3: for an existing node X, with or without a self-loop, the shortest
\* path query from X to X yields the path [X].
C3_SameNode ==
    (PathQuery /\ ret.src = ret.dst) =>
        (ret.kind = "path" /\ ret.path = <<ret.src>>)

\* C3 witness: the query from a node with a self-loop and another edge to itself
C3_Witness ==
    /\ PathQuery
    /\ ret.src = ret.dst
    /\ ret.src \in Range(G.adj[ret.src])
    /\ Len(G.adj[ret.src]) = 2
    /\ ret.path = <<ret.src>>

\* C4: for two existing nodes of one connected component the query yields
\* a sequence that starts with src, ends with dst, steps along edges only
\* and has as many edges as the distance from src to dst.
C4_Shortest ==
    (PathQuery /\ Connected(G, ret.src, ret.dst)) =>
        /\ ret.kind = "path"
        /\ Len(ret.path) >= 1
        /\ ret.path[1] = ret.src
        /\ ret.path[Len(ret.path)] = ret.dst
        /\ IsWalk(G, ret.path)
        /\ Len(ret.path) - 1 = Distance(G, ret.src, ret.dst)

\* C4 witness: routes A-B and B-C and no A-C: the query from A to C
\* yields [A, B, C]
C4_Witness ==
    /\ PathQuery
    /\ ret.src = "A" /\ ret.dst = "C"
    /\ "B" \in Range(G.adj["A"]) /\ "C" \in Range(G.adj["B"])
    /\ "C" \notin Range(G.adj["A"])
    /\ ret.path = <<"A", "B", "C">>

\* C5: for two existing nodes of different connected components the query
\* yields the "no path" outcome: no path, no empty sequence as a path, and
\* no exception.
C5_NoPath ==
    (PathQuery /\ ~Connected(G, ret.src, ret.dst)) =>
        (ret.kind = "no_path" /\ ret.exc = "")

\* C5 witness: the query between two nodes that each have a neighbour and
\* are not connected (after the forward and the reverse search both ran)
C5_Witness ==
    /\ PathQuery
    /\ ~Connected(G, ret.src, ret.dst)
    /\ G.adj[ret.src] # <<>>
    /\ ret.kind = "no_path"

-----------------------------------------------------------------------------
(* Claims about the other queries (SpecQuery) *)

HubQuery == ret.op = "show_top_hubs"

Min(a, b) == IF a < b THEN a ELSE b

\* C6: for n >= 0 the hub ranking yields min(n, number of nodes) pairs
\* (code, degree) of distinct nodes, each with the degree of its node, in
\* order of non-increasing degree.
C6_TopHubs ==
    (HubQuery /\ ret.n >= 0) =>
        /\ ret.kind = "hubs"
        /\ Len(ret.hubs) = Min(ret.n, Len(G.node))
        /\ \A k \in 1..Len(ret.hubs) :
             /\ HasNode(G, ret.hubs[k][1])
             /\ ret.hubs[k][2] = Degree(G, ret.hubs[k][1])
        /\ \A j, k \in 1..Len(ret.hubs) :
             /\ (j < k => ret.hubs[j][2] >= ret.hubs[k][2])
             /\ (j # k => ret.hubs[j][1] # ret.hubs[k][1])

\* C6 witness: topHubs(1) on routes A-B and B-C yields [(B, 2)], B being
\* neither the first node nor the only one
C6_Witness ==
    /\ HubQuery
    /\ ret.n = 1
    /\ Len(G.node) = 3
    /\ G.node[1] # "B"
    /\ ret.hubs = << <<"B", 2>> >>

\* C7 as claimed: the hub ranking yields the empty sequence for every
\* n <= 0 and all nodes for every n above the node count.
C7_Claimed ==
    HubQuery =>
        /\ (ret.n <= 0 => ret.hubs = <<>>)
        /\ (ret.n > Len(G.node) => Len(ret.hubs) = Len(G.node))

Ascending(s) == \A j, k \in 1..Len(s) : j < k => Rank(s[j]) < Rank(s[k])

\* C8 as claimed: for a valid node the neighbour query yields the directly
\* connected codes in ascending order without duplicates, as many as the
\* degree that the stats and hub ranking queries report for the node.
C8_Claimed ==
    (ret.op = "show_neighbors" /\ HasNode(G, ret.src)) =>
        /\ ret.kind = "neighbors"
        /\ Range(ret.path) = Range(G.adj[ret.src])
        /\ Ascending(ret.path)
        /\ Len(ret.path) = show_stats(G, ret.src).count
        /\ \A k \in 1..Len(G.node) :
             G.node[k] = ret.src => Len(ret.path) = DegreeView(G)[k][2]

\* C9 as claimed: for a code that is no node the existence check returns
\* false and the stats, neighbour and shortest path queries yield an
\* ordinary outcome: none raises.
C9_Claimed ==
    /\ (ret.op = "validate_iata" /\ ~HasNode(G, ret.src)) => ret.kind = "false"
    /\ (ret.op \in {"show_stats", "show_neighbors"} /\ ~HasNode(G, ret.src))
          => ret.kind # "raised"
    /\ (ret.op = "find_shortest_path" /\ (~HasNode(G, ret.src) \/ ~HasNode(G, ret.dst)))
          => ret.kind # "raised"

-----------------------------------------------------------------------------
(* Claims about interactive_mode (Spec) *)

\* C10 as claimed: the shell calls the shortest path, neighbour and stats
\* queries only with codes that validate_iata accepts on the same Graph;
\* no input makes an exception end the shell; and the loop ends only after
\* choice 5 was entered at the menu.
C10_Claimed ==
    /\ ret.op \in {"find_shortest_path", "show_neighbors", "show_stats"}
          => validate_iata(ret.src, G)
    /\ ret.op = "find_shortest_path" => validate_iata(ret.dst, G)
    /\ pc # "raised"
    /\ pc = "exit" => choice = "5"

====
